---- MODULE Spec2Model ----
(***************************************************************************)
(* Conversation session and history subsystem of the Ollama chat UI        *)
(* (src/ollama-ui/app.py): the conversation_history table, the history     *)
(* reconstruction functions, the chat turn handler and the session         *)
(* handlers of the Gradio interface, driven by several browsing contexts   *)
(* ("callers") that share one database.                                    *)
(*                                                                         *)
(* Text values (message contents, exception texts) are sequences of word   *)
(* tokens: the empty string is <<>>, "ping" is <<"ping">>, and the         *)
(* f-string f"Error: {exc}" is the concatenation <<"Error:">> \o exc.      *)
(* A dict is a sequence of <<key, value>> pairs in insertion order.        *)
(* Python's Optional[str] is a sequence of length 0 (None) or 1.           *)
(*                                                                         *)
(* The second service of the repository, the transcription endpoint        *)
(* (src/whisper-service/server.py), has its own state (whisper) and its    *)
(* own specification (SpecWhisper); the two services share nothing.        *)
(***************************************************************************)
EXTENDS Integers, Sequences, FiniteSets, TLC

VARIABLES
    store,            \* conversation_history: the rows, in insertion (id) order
    now,              \* the database clock read by DEFAULT NOW()
    session_state,    \* per caller: the gr.State session id
    chatbot,          \* per caller: the gr.Chatbot value, a list of pairs
    pc,               \* per caller: position inside handle_chat
    loc,              \* per caller: the local variables of handle_chat
    model,            \* server.py: the global WhisperModel instance, or None
    tmp_files,        \* server.py: the files in the temp directory
    request,          \* per connection: the request being served, if any
    proc_pc,          \* per connection: position inside _process_transcription
    proc_loc,         \* per connection: the locals of _process_transcription
    calls,            \* per connection: the file and model calls of the request
    response          \* per connection: the answer to the last request, if any

\* the state of the transcription service (src/whisper-service/server.py),
\* which the handlers of the chat UI neither read nor write
whisper == <<model, tmp_files, request, proc_pc, proc_loc, calls, response>>

\* the state of the chat UI (src/ollama-ui/app.py), which the transcription
\* service neither reads nor writes
chat == <<store, now, session_state, chatbot, pc, loc>>

vars == <<store, now, session_state, chatbot, pc, loc, whisper>>

-----------------------------------------------------------------------------
(* Bounds of the model *)

\* the last reading of the clock: a step during which the clock moves on is
\* taken only below it (the clock moves on twice per turn)
MaxClock == 5

\* the last reading of the clock when one caller runs alone
MaxClockSolo == 7

\* the last reading of the clock when the database can fail
MaxClockFaulty == 5

\* the last reading of the clock when the callers only submit messages
MaxClockTurns == 9

\* the limits 0..MaxLimit are tried on the SELECT of fetch_history
MaxLimit == 3

\* the stored sequences that the functions over rows are applied to have at
\* most MaxRows rows, and append_message is called at most MaxRows times
\* with arbitrary arguments
MaxRows == 3

-----------------------------------------------------------------------------
(* Configuration and inputs *)

\* OLLAMA_UI_MAX_HISTORY; the default is 40, the model runs with 4
MAX_HISTORY_MESSAGES == 4

\* the uuid drawn once when build_interface constructs gr.State
InitialSid == 1

SYSTEM_PROMPT == <<"You", "are", "a", "helpful", "AI", "assistant">>

Callers == {"c1", "c2"}

\* what a user may have typed when the textbox is submitted
UserTexts == {<<>>, <<"ping">>, <<"hi">>}

EmptyDict == <<>>

\* what the POST to /api/chat can come back with
Responses ==
    { [status |-> "timeout", content |-> <<>>, metadata |-> <<>>],
      [status |-> "500", content |-> <<>>, metadata |-> <<>>],
      [status |-> "200", content |-> <<>>, metadata |-> <<>>],
      [status |-> "200", content |-> <<"pong">>,
       metadata |-> << <<"model", "gemma3">> >>] }

\* the inputs of the runs with two callers
SharedTexts == {<<>>, <<"ping">>}

SharedResponses ==
    { [status |-> "timeout", content |-> <<>>, metadata |-> <<>>],
      [status |-> "200", content |-> <<"pong">>,
       metadata |-> << <<"model", "gemma3">> >>] }

-----------------------------------------------------------------------------
(* Pure functions *)

\* json.dumps(metadata, indent=2)
RECURSIVE JsonItems(_)
JsonItems(d) ==
    IF d = <<>> THEN <<>>
    ELSE <<Head(d)[1], ":", Head(d)[2]>> \o JsonItems(Tail(d))

JsonDumps(d) ==
    IF d = <<>> THEN <<"{}">> ELSE <<"{">> \o JsonItems(d) \o <<"}">>

\* Python truthiness of an Optional[str]
Truthy(opt) == opt # <<>> /\ opt[1] # <<>>

\* current_user or ""
OrEmpty(opt) == IF Truthy(opt) THEN opt[1] ELSE <<>>

\* mutant: an assistant message without a pending user message is skipped
RECURSIVE PairsLoopSkipStray(_, _, _, _)
PairsLoopSkipStray(rows, i, pairs, current_user) ==
    IF i > Len(rows)
    THEN [pairs |-> pairs, current_user |-> current_user]
    ELSE IF rows[i].role = "user"
    THEN PairsLoopSkipStray(rows, i + 1, pairs, <<rows[i].content>>)
    ELSE IF rows[i].role = "assistant"
    THEN PairsLoopSkipStray(rows, i + 1,
                   IF current_user # <<>> /\ current_user[1] # <<>>
                   THEN Append(pairs, <<current_user[1], rows[i].content>>)
                   ELSE pairs,
                   <<>>)
    ELSE PairsLoopSkipStray(rows, i + 1, pairs, current_user)

\* mutant: a pending user message is kept when another user message follows
RECURSIVE PairsLoopFirstUser(_, _, _, _)
PairsLoopFirstUser(rows, i, pairs, current_user) ==
    IF i > Len(rows)
    THEN [pairs |-> pairs, current_user |-> current_user]
    ELSE IF rows[i].role = "user"
    THEN PairsLoopFirstUser(rows, i + 1, pairs,
                   IF current_user # <<>> THEN current_user ELSE <<rows[i].content>>)
    ELSE IF rows[i].role = "assistant"
    THEN PairsLoopFirstUser(rows, i + 1,
                   Append(pairs, <<OrEmpty(current_user), rows[i].content>>),
                   <<>>)
    ELSE PairsLoopFirstUser(rows, i + 1, pairs, current_user)

\* the loop of history_to_chat_pairs, from row i on
RECURSIVE PairsLoop(_, _, _, _)
PairsLoop(rows, i, pairs, current_user) ==
    IF i > Len(rows)
    THEN [pairs |-> pairs, current_user |-> current_user]
    ELSE IF rows[i].role = "user"
    THEN PairsLoop(rows, i + 1, pairs, <<rows[i].content>>)
    ELSE IF rows[i].role = "assistant"
    THEN PairsLoop(rows, i + 1,
                   Append(pairs, <<OrEmpty(current_user), rows[i].content>>),
                   <<>>)
    ELSE PairsLoop(rows, i + 1, pairs, current_user)

history_to_chat_pairs(rows) ==
    LET r == PairsLoop(rows, 1, <<>>, <<>>)
    IN  IF Truthy(r.current_user)
        THEN Append(r.pairs, <<r.current_user[1], <<>> >>)
        ELSE r.pairs

\* mutant: the new user message is put before the history
build_messages_user_first(rows, user_message) ==
    <<[role |-> "system", content |-> SYSTEM_PROMPT]>>
    \o <<[role |-> "user", content |-> user_message]>>
    \o [i \in 1..Len(rows) |-> [role |-> rows[i].role, content |-> rows[i].content]]

\* lines 144-149
build_messages(rows, user_message) ==
    <<[role |-> "system", content |-> SYSTEM_PROMPT]>>
    \o [i \in 1..Len(rows) |-> [role |-> rows[i].role, content |-> rows[i].content]]
    \o <<[role |-> "user", content |-> user_message]>>

\* chat_with_ollama on a given response of the backend
chat_with_ollama(messages, resp) ==
    IF resp.status = "timeout"
    THEN [raised |-> TRUE, exc |-> <<"Read", "timed", "out">>,
          reply |-> <<>>, metadata |-> EmptyDict]
    ELSE IF resp.status # "200"
    THEN [raised |-> TRUE, exc |-> <<resp.status, "Server", "Error">>,
          reply |-> <<>>, metadata |-> EmptyDict]
    ELSE IF resp.content = <<>>
    THEN [raised |-> TRUE, exc |-> <<"Empty", "response", "from", "Ollama">>,
          reply |-> <<>>, metadata |-> EmptyDict]
    ELSE [raised |-> FALSE, exc |-> <<>>,
          reply |-> resp.content, metadata |-> resp.metadata]

-----------------------------------------------------------------------------
(* The message store *)

\* mutant: the WHERE clause is missing
SessionRowsOfAll(st, session_id) == 1..Len(st)

\* the rows of a table that a WHERE session_id = %s selects, by position
SessionRows(st, session_id) ==
    {i \in 1..Len(st) : st[i].session_id = session_id}

\* mutant: ORDER BY created_at DESC
RECURSIVE OrderByCreatedAtDesc(_, _)
OrderByCreatedAtDesc(st, I) ==
    IF I = {} THEN {<<>>}
    ELSE LET firsts == {i \in I : \A j \in I : st[i].created_at >= st[j].created_at}
         IN  UNION {{<<st[i]>> \o rest : rest \in OrderByCreatedAtDesc(st, I \ {i})} :
                    i \in firsts}

\* ORDER BY created_at ASC: every order of the selected rows that sorts them
\* by created_at; rows with equal created_at may come in any order
RECURSIVE OrderByCreatedAt(_, _)
OrderByCreatedAt(st, I) ==
    IF I = {} THEN {<<>>}
    ELSE LET firsts == {i \in I : \A j \in I : st[i].created_at <= st[j].created_at}
         IN  UNION {{<<st[i]>> \o rest : rest \in OrderByCreatedAt(st, I \ {i})} :
                    i \in firsts}

Min(a, b) == IF a <= b THEN a ELSE b

\* mutant: the n newest rows instead of the n oldest
SelectLimitNewest(rows, n) ==
    [i \in 1..Min(Len(rows), n) |->
        LET k == Len(rows) - Min(Len(rows), n) + i
        IN  [role |-> rows[k].role, content |-> rows[k].content,
             metadata |-> rows[k].metadata]]

\* LIMIT n, and the three columns of the SELECT
SelectLimit(rows, n) ==
    [i \in 1..Min(Len(rows), n) |->
        [role |-> rows[i].role, content |-> rows[i].content,
         metadata |-> rows[i].metadata]]

\* the results the SELECT of fetch_history can return on a table for the
\* parameters (session_id, limit)
SelectHistory(st, session_id, limit) ==
    {SelectLimit(rows, limit) :
        rows \in OrderByCreatedAt(st, SessionRows(st, session_id))}

\* fetch_history(session_id): the SELECT with limit MAX_HISTORY_MESSAGES
fetch_history(st, session_id) ==
    SelectHistory(st, session_id, MAX_HISTORY_MESSAGES)

\* the roles the table conversation_history allows
RowRoles == {"user", "assistant", "system"}

\* CHECK (role IN ('user', 'assistant', 'system'))
CheckRole(role) == role \in RowRoles

\* mutant: the table has no CHECK on role
append_message_unchecked(st, at, session_id, role, content, metadata) ==
    Append(st, [session_id |-> session_id, role |-> role,
                content |-> content, created_at |-> at,
                metadata |-> JsonDumps(metadata)])

\* mutant: every message is stored under the role user
append_message_as_user(st, at, session_id, role, content, metadata) ==
    Append(st, [session_id |-> session_id, role |-> "user",
                content |-> content, created_at |-> at,
                metadata |-> JsonDumps(metadata)])

\* the table after append_message(session_id, role, content, metadata) at
\* clock reading at; the id column is the position of the row in the
\* sequence (BIGSERIAL grows with every insert, DELETE keeps the order); a
\* row that violates the CHECK is not inserted
append_message(st, at, session_id, role, content, metadata) ==
    IF CheckRole(role)
    THEN Append(st, [session_id |-> session_id, role |-> role,
                     content |-> content, created_at |-> at,
                     metadata |-> JsonDumps(metadata)])
    ELSE st

\* the INSERT of append_message violates the CHECK and cur.execute raises
append_message_raises(role) == ~CheckRole(role)

\* mutant: the DELETE has no WHERE clause
delete_session_unfiltered(st, session_id) == SelectSeq(st, LAMBDA r : FALSE)

\* DELETE ... WHERE session_id = %s
delete_session(st, session_id) ==
    SelectSeq(st, LAMBDA r : r.session_id # session_id)

\* mutant: only the session of the constructor value is deleted
delete_all_sessions_initial_only(st) ==
    SelectSeq(st, LAMBDA r : r.session_id # InitialSid)

\* DELETE FROM conversation_history
delete_all_sessions(st) == SelectSeq(st, LAMBDA r : FALSE)

\* mutant: the WHERE clause of get_all_sessions is missing
WhereRoleAny(st) == 1..Len(st)

\* WHERE role = 'user', by position
WhereRoleUser(st) == {i \in 1..Len(st) : st[i].role = "user"}

\* ORDER BY session_id, created_at ASC: every order of the selected rows
\* that sorts them by session id and then by created_at
RECURSIVE OrderBySessionCreatedAt(_, _)
OrderBySessionCreatedAt(st, I) ==
    IF I = {} THEN {<<>>}
    ELSE LET firsts == {i \in I : \A j \in I :
                            \/ st[i].session_id < st[j].session_id
                            \/ /\ st[i].session_id = st[j].session_id
                               /\ st[i].created_at <= st[j].created_at}
         IN  UNION {{<<st[i]>> \o rest : rest \in OrderBySessionCreatedAt(st, I \ {i})} :
                    i \in firsts}

\* DISTINCT ON (session_id): the first row of every run of rows with one
\* session id, and the three columns of the SELECT; created_at::text writes
\* the timestamp out, one text per clock reading, and the model keeps the
\* clock reading
DistinctOnSession(rows) ==
    LET keep == {k \in 1..Len(rows) :
                    k = 1 \/ rows[k - 1].session_id # rows[k].session_id}
        nth(n) == CHOOSE k \in keep : Cardinality({j \in keep : j <= k}) = n
    IN  [n \in 1..Cardinality(keep) |->
            <<rows[nth(n)].session_id, rows[nth(n)].content, rows[nth(n)].created_at>>]

\* get_all_sessions(): the results its SELECT can return
get_all_sessions(st) ==
    {DistinctOnSession(rows) : rows \in OrderBySessionCreatedAt(st, WhereRoleUser(st))}

\* refresh_sessions(): the values of the choices it can put into the dropdown
refresh_sessions(st) ==
    {[k \in 1..Len(sessions) |-> sessions[k][1]] : sessions \in get_all_sessions(st)}

\* load_history: the views a reload of the session can show
load_history(st, session_id) ==
    {history_to_chat_pairs(rows) : rows \in fetch_history(st, session_id)}

-----------------------------------------------------------------------------
\* no response received
NoResponse == [status |-> "", content |-> <<>>, metadata |-> <<>>]

(* The transcription service (src/whisper-service/server.py): its inputs *)

\* the HTTP connections to the service, each with one request at a time
Conns == {"k1", "k2"}

\* the routes whose handlers call _process_transcription
Routes == {"/asr", "/v1/audio/transcriptions"}

\* Content-Type headers: a header is a sequence of tokens, an absent header
\* reads as "" (line 120)
ContentTypes ==
    { <<"multipart/form-data", "boundary=x">>,
      <<"application/octet-stream">>,
      <<>> }

\* "multipart/form-data" in content_type (line 122)
IsMultipart(content_type) ==
    \E i \in 1..Len(content_type) : content_type[i] = "multipart/form-data"

\* audio data: b"" is <<>>
AudioData == {<<>>, <<"RIFF">>}

\* the uploads of a multipart request: filename is None (<<>>) or a name
\* given as its stem followed by its suffix, if it has one
UploadFiles ==
    { [filename |-> <<"clip", ".mp3">>, data |-> <<"RIFF">>],
      [filename |-> <<>>, data |-> <<"RIFF">>],
      [filename |-> <<"clip">>, data |-> <<>>] }

\* the values of the form field or query parameter that selects the output
OutputChoices == {<<>>, <<"text">>}

\* the requests sent to the two routes. A multipart request carries the
\* form fields, with or without the upload; any other request carries the
\* audio as its body and the options as query parameters. The parameters
\* language, task and word_timestamps are handed to the model as they are
\* and decide nothing in _process_transcription: they are left out.
AsrRequests ==
    { [route |-> rt, content_type |-> ct, audio_file |-> f, body |-> <<>>,
       form_output |-> o, query_output |-> <<>>] :
         rt \in Routes, ct \in {c \in ContentTypes : IsMultipart(c)},
         f \in {<<>>} \cup {<<u>> : u \in UploadFiles}, o \in OutputChoices }
    \cup
    { [route |-> rt, content_type |-> ct, audio_file |-> <<>>, body |-> b,
       form_output |-> <<>>, query_output |-> o] :
         rt \in Routes, ct \in {c \in ContentTypes : ~IsMultipart(c)},
         b \in AudioData, o \in OutputChoices }

\* what whisper_model.transcribe and the loop over its segments come to
\* (lines 87-106): a text with its info, or an exception
Transcriptions ==
    { [raised |-> FALSE, segments |-> << <<"hello">>, <<"world">> >>,
       language |-> <<"en">>, duration |-> 2, exc |-> <<>>],
      [raised |-> TRUE, segments |-> <<>>, language |-> <<>>, duration |-> 0,
       exc |-> <<"Invalid", "data", "found">>] }

\* the locals of _process_transcription before the call
NoProcLocals ==
    [output |-> <<>>, content |-> <<>>, suffix |-> "", tmp_path |-> <<>>,
     exc |-> <<>>]

\* server.py after import: model = None (line 30), no request received
InitWhisper ==
    /\ model = <<>>
    /\ tmp_files = {}
    /\ request = [k \in Conns |-> <<>>]
    /\ proc_pc = [k \in Conns |-> "idle"]
    /\ proc_loc = [k \in Conns |-> NoProcLocals]
    /\ calls = [k \in Conns |-> <<>>]
    /\ response = [k \in Conns |-> <<>>]

-----------------------------------------------------------------------------
\* the locals of handle_chat and chat_with_ollama before the call
NoLocals ==
    [user_message |-> <<>>, stored_history |-> <<>>, messages |-> <<>>,
     resp |-> NoResponse, assistant_reply |-> <<>>, metadata |-> EmptyDict]

Init ==
    /\ store = <<>>
    /\ now = 1
    /\ session_state = [c \in Callers |-> InitialSid]
    /\ chatbot = [c \in Callers |-> <<>>]
    /\ pc = [c \in Callers |-> "idle"]
    /\ loc = [c \in Callers |-> NoLocals]
    /\ InitWhisper

-----------------------------------------------------------------------------
(* Session ids *)

\* the session ids of the model
Sids == {1, 2, 3}

\* the session ids some part of the state refers to
UsedSids ==
    {InitialSid}
    \cup {session_state[c] : c \in Callers}
    \cup {store[i].session_id : i \in 1..Len(store)}

\* str(uuid.uuid4()): an id that occurs nowhere (ids that nothing refers to
\* any more are handed out again, which no handler can tell from a new one)
CanUuid == Sids \ UsedSids # {}
uuid4 == CHOOSE s \in Sids \ UsedSids : \A t \in Sids \ UsedSids : s <= t

\* new_session(): the new id and an empty history
new_session == <<uuid4, <<>> >>

-----------------------------------------------------------------------------
(* handle_chat, one step per statement that other callers can interleave with *)

\* user_input.submit: the event reaches the server with the textbox value;
\* chatbot[c] and session_state[c] are the other two inputs, and they stay
\* as they are until the handler returns (one event per caller at a time)
submit(c, user_message) ==
    /\ pc[c] = "idle"
    /\ pc' = [pc EXCEPT ![c] = "submitted"]
    /\ loc' = [loc EXCEPT ![c].user_message = user_message]
    /\ UNCHANGED <<store, now, session_state, chatbot, whisper>>

\* mutant: the empty message is stored and the history comes back empty
handle_chat_empty_stored(c) ==
    /\ pc[c] = "submitted"
    /\ loc[c].user_message = <<>>
    /\ store' = append_message(store, now, session_state[c], "user",
                               loc[c].user_message, EmptyDict)
    /\ chatbot' = [chatbot EXCEPT ![c] = <<>>]
    /\ pc' = [pc EXCEPT ![c] = "idle"]
    /\ loc' = [loc EXCEPT ![c] = NoLocals]
    /\ UNCHANGED <<now, session_state, whisper>>

\* lines 170-171: if not user_message: return history, gr.update(), session_id
handle_chat_empty(c) ==
    /\ pc[c] = "submitted"
    /\ loc[c].user_message = <<>>
    /\ pc' = [pc EXCEPT ![c] = "idle"]
    /\ loc' = [loc EXCEPT ![c] = NoLocals]
    /\ UNCHANGED <<store, now, session_state, chatbot, whisper>>

\* lines 173-174: fetch_history and build_messages; the query runs on a
\* connection of its own, and the clock moves on while it does
handle_chat_fetch(c) ==
    /\ pc[c] = "submitted"
    /\ loc[c].user_message # <<>>
    /\ \E rows \in fetch_history(store, session_state[c]) :
         loc' = [loc EXCEPT ![c].stored_history = rows,
                            ![c].messages = build_messages(rows, loc[c].user_message)]
    /\ now' = now + 1
    /\ pc' = [pc EXCEPT ![c] = "fetched"]
    /\ UNCHANGED <<store, session_state, chatbot, whisper>>

\* mutant: the user message is not written before the backend call
handle_chat_append_user_skipped(c) ==
    /\ pc[c] = "fetched"
    /\ pc' = [pc EXCEPT ![c] = "appended"]
    /\ UNCHANGED <<store, now, session_state, chatbot, loc, whisper>>

\* line 176: append_message(session_id, "user", user_message, {})
handle_chat_append_user(c) ==
    /\ pc[c] = "fetched"
    /\ store' = append_message(store, now, session_state[c], "user",
                               loc[c].user_message, EmptyDict)
    /\ pc' = [pc EXCEPT ![c] = "appended"]
    /\ UNCHANGED <<now, session_state, chatbot, loc, whisper>>

\* line 159: requests.post: the request is on its way to the backend
handle_chat_post(c) ==
    /\ pc[c] = "appended"
    /\ pc' = [pc EXCEPT ![c] = "calling"]
    /\ UNCHANGED <<store, now, session_state, chatbot, loc, whisper>>

\* mutant: the text of the exception becomes the reply as it is
handle_chat_reply_unmarked(c, resp) ==
    /\ pc[c] = "calling"
    /\ LET r == chat_with_ollama(loc[c].messages, resp)
       IN  loc' = [loc EXCEPT
                     ![c].resp = resp,
                     ![c].assistant_reply = IF r.raised THEN r.exc ELSE r.reply,
                     ![c].metadata = IF r.raised THEN EmptyDict ELSE r.metadata]
    /\ now' = now + 1
    /\ pc' = [pc EXCEPT ![c] = "replied"]
    /\ UNCHANGED <<store, session_state, chatbot, whisper>>

\* lines 178-183: the call returns or raises; the round trip takes time
handle_chat_reply(c, resp) ==
    /\ pc[c] = "calling"
    /\ LET r == chat_with_ollama(loc[c].messages, resp)
       IN  loc' = [loc EXCEPT
                     ![c].resp = resp,
                     ![c].assistant_reply =
                         IF r.raised THEN <<"Error:">> \o r.exc ELSE r.reply,
                     ![c].metadata = IF r.raised THEN EmptyDict ELSE r.metadata]
    /\ now' = now + 1
    /\ pc' = [pc EXCEPT ![c] = "replied"]
    /\ UNCHANGED <<store, session_state, chatbot, whisper>>

\* mutant: the reply is returned to the caller but not written to the table
handle_chat_append_assistant_unsaved(c) ==
    /\ pc[c] = "replied"
    /\ chatbot' = [chatbot EXCEPT ![c] =
                     chatbot[c] \o << <<loc[c].user_message, loc[c].assistant_reply>> >>]
    /\ pc' = [pc EXCEPT ![c] = "idle"]
    /\ loc' = [loc EXCEPT ![c] = NoLocals]
    /\ UNCHANGED <<store, now, session_state, whisper>>

\* mutant: the reply is written only while the user message is still stored
handle_chat_append_assistant_if_kept(c) ==
    /\ pc[c] = "replied"
    /\ store' = IF \E i \in 1..Len(store) :
                       /\ store[i].session_id = session_state[c]
                       /\ store[i].role = "user"
                THEN append_message(store, now, session_state[c], "assistant",
                                    loc[c].assistant_reply, loc[c].metadata)
                ELSE store
    /\ chatbot' = [chatbot EXCEPT ![c] =
                     chatbot[c] \o << <<loc[c].user_message, loc[c].assistant_reply>> >>]
    /\ pc' = [pc EXCEPT ![c] = "idle"]
    /\ loc' = [loc EXCEPT ![c] = NoLocals]
    /\ UNCHANGED <<now, session_state, whisper>>

\* lines 185-188: append the reply and return history + [(user, reply)]
handle_chat_append_assistant(c) ==
    /\ pc[c] = "replied"
    /\ store' = append_message(store, now, session_state[c], "assistant",
                               loc[c].assistant_reply, loc[c].metadata)
    /\ chatbot' = [chatbot EXCEPT ![c] =
                     chatbot[c] \o << <<loc[c].user_message, loc[c].assistant_reply>> >>]
    /\ pc' = [pc EXCEPT ![c] = "idle"]
    /\ loc' = [loc EXCEPT ![c] = NoLocals]
    /\ UNCHANGED <<now, session_state, whisper>>

-----------------------------------------------------------------------------
(* The other handlers of build_interface *)

\* demo.load(load_session): a browsing context opens the page; its
\* components start from their constructor values
load_session(c) ==
    /\ pc[c] = "idle"
    /\ session_state' = [session_state EXCEPT ![c] = InitialSid]
    /\ \E pairs \in load_history(store, InitialSid) :
         chatbot' = [chatbot EXCEPT ![c] = pairs]
    /\ UNCHANGED <<store, now, pc, loc, whisper>>

\* what a caller can select in the dropdown: one of the choices that
\* refresh_sessions filled in just before
Selectable(st) ==
    UNION {{<<choices[k]>> : k \in 1..Len(choices)} :
              choices \in refresh_sessions(st)}

\* session_list.change; selected is None or one of the dropdown's choices
switch_session(c, selected) ==
    /\ pc[c] = "idle"
    /\ LET target == IF selected = <<>> THEN session_state[c] ELSE selected[1]
       IN  /\ \E pairs \in load_history(store, target) :
                 chatbot' = [chatbot EXCEPT ![c] = pairs]
           /\ session_state' = [session_state EXCEPT ![c] = target]
    /\ UNCHANGED <<store, now, pc, loc, whisper>>

\* new_session_btn.click
reset_session(c) ==
    /\ pc[c] = "idle"
    /\ CanUuid
    /\ session_state' = [session_state EXCEPT ![c] = new_session[1]]
    /\ chatbot' = [chatbot EXCEPT ![c] = new_session[2]]
    /\ UNCHANGED <<store, now, pc, loc, whisper>>

\* delete_current_btn.click
delete_current_session(c) ==
    /\ pc[c] = "idle"
    /\ CanUuid
    /\ store' = delete_session(store, session_state[c])
    /\ session_state' = [session_state EXCEPT ![c] = new_session[1]]
    /\ chatbot' = [chatbot EXCEPT ![c] = new_session[2]]
    /\ UNCHANGED <<now, pc, loc, whisper>>

\* delete_all_btn.click
erase_all_conversations(c) ==
    /\ pc[c] = "idle"
    /\ CanUuid
    /\ store' = delete_all_sessions(store)
    /\ session_state' = [session_state EXCEPT ![c] = new_session[1]]
    /\ chatbot' = [chatbot EXCEPT ![c] = new_session[2]]
    /\ UNCHANGED <<now, pc, loc, whisper>>

\* one step of caller c: texts are the values the textbox may hold, resps
\* the answers the backend may give, and the clock stops at reading last
Step(c, texts, resps, last) ==
    \/ \E t \in texts : submit(c, t)
    \/ handle_chat_empty(c)
    \/ now < last /\ handle_chat_fetch(c)
    \/ handle_chat_append_user(c)
    \/ handle_chat_post(c)
    \/ now < last /\ \E resp \in resps : handle_chat_reply(c, resp)
    \/ handle_chat_append_assistant(c)
    \/ load_session(c)
    \/ pc[c] = "idle"
          /\ \E sel \in {<<>>} \cup Selectable(store) : switch_session(c, sel)
    \/ reset_session(c)
    \/ delete_current_session(c)
    \/ erase_all_conversations(c)

\* two browsing contexts on one database
Next == \E c \in Callers : Step(c, SharedTexts, SharedResponses, MaxClock)

Spec == Init /\ [][Next]_vars

\* one browsing context alone, with every input and every kind of answer
NextSolo == Step("c1", UserTexts, Responses, MaxClockSolo)

SpecSolo == Init /\ [][NextSolo]_vars

\* the message sequences history_to_chat_pairs is applied to: the table
\* conversation_history allows the roles in RowRoles and any text
RowTexts == {<<>>, <<"ping">>, <<"pong">>}

\* the tables of at most n rows of one session, stored one after another
StoredRows(n) ==
    UNION {[1..k -> RowRoles \X RowTexts] : k \in 0..n}

\* a page load on a table that holds any such session
InitPairs ==
    /\ \E rows \in StoredRows(MaxRows) :
         store = [i \in 1..Len(rows) |->
                    [session_id |-> InitialSid, role |-> rows[i][1],
                     content |-> rows[i][2], created_at |-> i,
                     metadata |-> JsonDumps(EmptyDict)]]
    /\ now = Len(store) + 1
    /\ session_state = [c \in Callers |-> InitialSid]
    /\ chatbot = [c \in Callers |-> <<>>]
    /\ pc = [c \in Callers |-> "idle"]
    /\ loc = [c \in Callers |-> NoLocals]
    /\ InitWhisper

NextPairs == \E c \in Callers : load_session(c)

SpecPairs == InitPairs /\ [][NextPairs]_vars

\* what the callers type when they only submit messages
TurnTexts == {<<"ping">>}

\* one step of a caller that does nothing but submit messages
TurnStep(c) ==
    \/ \E t \in TurnTexts : submit(c, t)
    \/ now < MaxClockTurns /\ handle_chat_fetch(c)
    \/ handle_chat_append_user(c)
    \/ handle_chat_post(c)
    \/ now < MaxClockTurns /\ \E resp \in SharedResponses : handle_chat_reply(c, resp)
    \/ handle_chat_append_assistant(c)

\* two browsing contexts that only submit messages
NextTurns == \E c \in Callers : TurnStep(c)

SpecTurns == Init /\ [][NextTurns]_vars

\* line 173: fetch_history raises (the connection or the query fails);
\* handle_chat has no handler around it
handle_chat_fetch_raises(c) ==
    /\ pc[c] = "submitted"
    /\ loc[c].user_message # <<>>
    /\ pc' = [pc EXCEPT ![c] = "raised"]
    /\ UNCHANGED <<store, now, session_state, chatbot, loc, whisper>>

\* mutant: the failure of the user append is caught like a backend failure
handle_chat_append_user_caught(c) ==
    /\ pc[c] = "fetched"
    /\ loc' = [loc EXCEPT
                  ![c].assistant_reply = <<"Error:", "connection", "failed">>,
                  ![c].metadata = EmptyDict]
    /\ pc' = [pc EXCEPT ![c] = "replied"]
    /\ UNCHANGED <<store, now, session_state, chatbot, whisper>>

\* line 176: append_message raises; it stands before the try statement
handle_chat_append_user_raises(c) ==
    /\ pc[c] = "fetched"
    /\ pc' = [pc EXCEPT ![c] = "raised"]
    /\ UNCHANGED <<store, now, session_state, chatbot, loc, whisper>>

\* line 185: append_message raises; it stands after the try statement
handle_chat_append_assistant_raises(c) ==
    /\ pc[c] = "replied"
    /\ pc' = [pc EXCEPT ![c] = "raised"]
    /\ UNCHANGED <<store, now, session_state, chatbot, loc, whisper>>

\* an exception has left the handler of caller c: the event fails, the
\* outputs of the handler keep their values
handler_raised(c) ==
    /\ pc[c] = "raised"
    /\ pc' = [pc EXCEPT ![c] = "idle"]
    /\ loc' = [loc EXCEPT ![c] = NoLocals]
    /\ UNCHANGED <<store, now, session_state, chatbot, whisper>>

\* one browsing context on a database whose operations can fail
NextFaulty ==
    \/ Step("c1", SharedTexts, SharedResponses, MaxClockFaulty)
    \/ handle_chat_fetch_raises("c1")
    \/ handle_chat_append_user_raises("c1")
    \/ handle_chat_append_assistant_raises("c1")
    \/ handler_raised("c1")

SpecFaulty == Init /\ [][NextFaulty]_vars

\* the roles append_message is called with: those of the table and others
AnyRoles == RowRoles \cup {"tool", ""}

\* a call of append_message(session_id, role, content, {}) from a handler of
\* caller c; an exception leaves the handler
append_message_call(c, session_id, role, content) ==
    /\ pc[c] = "idle"
    /\ store' = append_message(store, now, session_id, role, content, EmptyDict)
    /\ now' = now + 1
    /\ pc' = [pc EXCEPT ![c] =
                 IF append_message_raises(role) THEN "raised" ELSE "idle"]
    /\ UNCHANGED <<session_state, chatbot, loc, whisper>>

\* append_message called with any session id, role and text
NextStore ==
    \/ /\ now <= MaxRows
       /\ \E s \in Sids, role \in AnyRoles, t \in RowTexts :
             append_message_call("c1", s, role, t)
    \/ handler_raised("c1")

SpecStore == Init /\ [][NextStore]_vars

\* a message is submitted on a table that holds any such session, and the
\* turn goes as far as the prompt
NextPrompt ==
    \E c \in Callers :
        \/ \E t \in UserTexts : submit(c, t)
        \/ handle_chat_empty(c)
        \/ handle_chat_fetch(c)

SpecPrompt == InitPairs /\ [][NextPrompt]_vars

-----------------------------------------------------------------------------
(* The transcription service: _process_transcription, one step per stretch *)
(* of code between two awaits and per call of the file system or the model *)

\* the handlers are coroutines on one event loop: between two awaits a
\* request runs alone. These are the positions in the middle of a stretch.
Busy == {"read", "saved", "except"}

\* the event loop is free to run the request on connection k
LoopFree(k) == \A q \in Conns \ {k} : proc_pc[q] \notin Busy

\* HTTPException(status_code=..., detail=...)
HTTPException(status_code, detail) ==
    [type |-> "HTTPException", status_code |-> status_code, detail |-> detail]

\* any other exception, with its message
OtherException(message) ==
    [type |-> "Exception", status_code |-> 0, detail |-> message]

\* f"{status_code}:" of an HTTPException
StatusToken(status_code) ==
    CASE status_code = 400 -> "400:"
      [] status_code = 500 -> "500:"
      [] OTHER -> "0:"

\* str(e) (line 170). For an HTTPException it depends on the release of
\* Starlette the image is built with: "" where the class defines no __str__
\* (the exception is constructed with keyword arguments only), and
\* f"{status_code}: {detail}" where it does.
StrException(e) ==
    IF e.type = "HTTPException"
    THEN {<<>>, <<StatusToken(e.status_code)>> \o e.detail}
    ELSE {e.detail}

\* Path(filename).suffix (line 126)
PathSuffix(filename) ==
    IF Len(filename) >= 2 THEN filename[Len(filename)] ELSE ""

\* " ".join(full_text) (line 105)
RECURSIVE JoinSegments(_)
JoinSegments(segments) ==
    IF segments = <<>> THEN <<>>
    ELSE Head(segments) \o JoinSegments(Tail(segments))

\* tempfile.NamedTemporaryFile picks a name no file in the directory has
FreshTmpPath == CHOOSE n \in 1..(Cardinality(tmp_files) + 1) : n \notin tmp_files

\* lines 243-251 and 276-282: FastAPI has parsed the form of a request on
\* connection k and calls the handler of the route; both handlers pass
\* output = the form value, or "json" without one (lines 249, 293)
receive(k, req) ==
    /\ proc_pc[k] \in {"idle", "responded"}
    /\ request' = [request EXCEPT ![k] = <<req>>]
    /\ proc_loc' = [proc_loc EXCEPT ![k] =
                       [NoProcLocals EXCEPT
                           !.output = IF req.form_output = <<>>
                                      THEN <<"json">> ELSE req.form_output]]
    /\ proc_pc' = [proc_pc EXCEPT ![k] = "called"]
    /\ calls' = [calls EXCEPT ![k] = <<>>]
    /\ response' = [response EXCEPT ![k] = <<>>]
    /\ UNCHANGED <<model, tmp_files, chat>>

\* lines 118-130, up to the first await: the branch on the content type
\* and the check of a multipart request
process_enter(k) ==
    /\ proc_pc[k] = "called"
    /\ LoopFree(k)
    /\ LET req == request[k][1] IN
         IF IsMultipart(req.content_type)
         THEN IF req.audio_file = <<>>
              THEN /\ proc_loc' = [proc_loc EXCEPT ![k].exc =
                         << HTTPException(400,
                               <<"audio_file", "is", "required", "for",
                                 "multipart", "uploads">>) >>]
                   /\ proc_pc' = [proc_pc EXCEPT ![k] = "except"]
              ELSE /\ proc_loc' = [proc_loc EXCEPT ![k].suffix =
                         IF req.audio_file[1].filename # <<>>
                         THEN PathSuffix(req.audio_file[1].filename)
                         ELSE ".wav"]
                   /\ proc_pc' = [proc_pc EXCEPT ![k] = "await_read"]
         ELSE /\ proc_pc' = [proc_pc EXCEPT ![k] = "await_body"]
              /\ UNCHANGED proc_loc
    /\ UNCHANGED <<model, tmp_files, request, calls, response, chat>>

\* line 127: await audio_file.read() returns
process_read(k) ==
    /\ proc_pc[k] = "await_read"
    /\ LoopFree(k)
    /\ proc_loc' = [proc_loc EXCEPT
                       ![k].content = request[k][1].audio_file[1].data]
    /\ proc_pc' = [proc_pc EXCEPT ![k] = "read"]
    /\ UNCHANGED <<model, tmp_files, request, calls, response, chat>>

\* lines 130-139: await request.body() returns; the check of the body and
\* the options of the query string
process_body(k) ==
    /\ proc_pc[k] = "await_body"
    /\ LoopFree(k)
    /\ LET req == request[k][1] IN
         IF req.body = <<>>
         THEN /\ proc_loc' = [proc_loc EXCEPT
                    ![k].content = req.body,
                    ![k].exc = << HTTPException(400,
                                     <<"Empty", "audio", "data">>) >>]
              /\ proc_pc' = [proc_pc EXCEPT ![k] = "except"]
         ELSE /\ proc_loc' = [proc_loc EXCEPT
                    ![k].content = req.body,
                    ![k].output = IF req.query_output = <<>>
                                  THEN @ ELSE req.query_output,
                    ![k].suffix = ".wav"]
              /\ proc_pc' = [proc_pc EXCEPT ![k] = "read"]
    /\ UNCHANGED <<model, tmp_files, request, calls, response, chat>>

\* lines 142-144: the audio is written to a new temp file
process_save(k) ==
    /\ proc_pc[k] = "read"
    /\ tmp_files' = tmp_files \cup {FreshTmpPath}
    /\ proc_loc' = [proc_loc EXCEPT ![k].tmp_path = <<FreshTmpPath>>]
    /\ calls' = [calls EXCEPT ![k] = Append(@, "NamedTemporaryFile")]
    /\ proc_pc' = [proc_pc EXCEPT ![k] = "saved"]
    /\ UNCHANGED <<model, request, response, chat>>

\* the body of a successful answer (lines 154-162): {"text": text} for
\* output == "text", a TranscriptionResponse otherwise
AnswerBody(output, transcription) ==
    IF output = <<"text">>
    THEN << <<"text", JoinSegments(transcription.segments)>> >>
    ELSE << <<"text", JoinSegments(transcription.segments)>>,
            <<"language", transcription.language>>,
            <<"duration", transcription.duration>>,
            <<"segments", transcription.segments>> >>

\* lines 146-166: run_transcription_from_path on the temp file: get_model
\* loads the model if there is none (loads: whether that succeeds), then
\* whisper_model.transcribe runs and comes to transcription. The finally
\* clause removes the temp file on either way out.
process_transcribe(k, loads, transcription) ==
    /\ proc_pc[k] = "saved"
    /\ tmp_files' = tmp_files \ {proc_loc[k].tmp_path[1]}
    /\ IF model = <<>> /\ ~loads
       THEN /\ UNCHANGED model
            /\ calls' = [calls EXCEPT ![k] = @ \o <<"WhisperModel", "unlink">>]
            /\ proc_loc' = [proc_loc EXCEPT ![k].exc =
                   << OtherException(<<"CUDA", "failed">>) >>]
            /\ proc_pc' = [proc_pc EXCEPT ![k] = "except"]
            /\ UNCHANGED response
       ELSE /\ model' = <<"WhisperModel">>
            /\ calls' = [calls EXCEPT ![k] =
                   @ \o (IF model = <<>> THEN <<"WhisperModel">> ELSE <<>>)
                     \o <<"transcribe", "unlink">>]
            /\ IF transcription.raised
               THEN /\ proc_loc' = [proc_loc EXCEPT ![k].exc =
                           << OtherException(transcription.exc) >>]
                    /\ proc_pc' = [proc_pc EXCEPT ![k] = "except"]
                    /\ UNCHANGED response
               ELSE /\ response' = [response EXCEPT ![k] =
                           << [status_code |-> 200, detail |-> <<>>,
                               body |-> AnswerBody(proc_loc[k].output,
                                                   transcription)] >>]
                    /\ proc_pc' = [proc_pc EXCEPT ![k] = "responded"]
                    /\ UNCHANGED proc_loc
    /\ UNCHANGED <<request, chat>>

\* lines 168-170: except Exception as e: every exception raised inside the
\* try statement, the HTTPExceptions of lines 125 and 132 included, is
\* raised again as HTTPException(status_code=500, detail=str(e)), which
\* FastAPI answers with that status and detail
process_except(k) ==
    /\ proc_pc[k] = "except"
    /\ \E detail \in StrException(proc_loc[k].exc[1]) :
          response' = [response EXCEPT ![k] =
              << [status_code |-> 500, detail |-> detail, body |-> <<>>] >>]
    /\ proc_pc' = [proc_pc EXCEPT ![k] = "responded"]
    /\ UNCHANGED <<model, tmp_files, request, proc_loc, calls, chat>>

\* lines 58-64: the startup event loads the model before the first request;
\* a failure is logged and leaves model = None
startup_event ==
    /\ model = <<>>
    /\ \A k \in Conns : proc_pc[k] = "idle"
    /\ model' = <<"WhisperModel">>
    /\ UNCHANGED <<tmp_files, request, proc_pc, proc_loc, calls, response, chat>>

\* the transcription service with two connections
NextWhisper ==
    \/ startup_event
    \/ \E k \in Conns :
          \/ \E req \in AsrRequests : receive(k, req)
          \/ process_enter(k)
          \/ process_read(k)
          \/ process_body(k)
          \/ process_save(k)
          \/ \E loads \in BOOLEAN, transcription \in Transcriptions :
                process_transcribe(k, loads, transcription)
          \/ process_except(k)

SpecWhisper == Init /\ [][NextWhisper]_vars

-----------------------------------------------------------------------------
(* C1: the user message is persisted before the backend call *)

\* the table holds a user message with this text for this session
HoldsUserMessage(st, session_id, user_message) ==
    \E i \in 1..Len(st) :
        /\ st[i].session_id = session_id
        /\ st[i].role = "user"
        /\ st[i].content = user_message

\* the backend call of caller c has started, succeeded or failed
BackendReached(c) == pc[c] \in {"calling", "replied"}

\* C1 as claimed: in every state in which the backend call of a turn has
\* started, succeeded or failed, the store holds the turn's user message.
C1_UserMessageAlwaysStored ==
    \A c \in Callers :
        BackendReached(c) =>
            HoldsUserMessage(store, session_state[c], loc[c].user_message)

\* C1 amended: a turn appends its user message before it invokes the
\* backend (the append establishes the row, and the call starts only from
\* the position after the append), and from the append to the end of the
\* turn the row stays in the store unless a step deletes that session or
\* deletes everything.
C1_AppendBeforeBackend ==
    [][\A c \in Callers :
        /\ (pc[c] = "fetched" /\ pc'[c] # "fetched") =>
              /\ pc'[c] = "appended"
              /\ HoldsUserMessage(store', session_state'[c], loc'[c].user_message)
        /\ (pc[c] # "calling" /\ pc'[c] = "calling") => pc[c] = "appended"
        /\ (pc[c] # "replied" /\ pc'[c] = "replied") => pc[c] = "calling"
        /\ ( /\ pc[c] \in {"appended", "calling", "replied"}
             /\ pc'[c] \in {"appended", "calling", "replied"}
             /\ HoldsUserMessage(store, session_state[c], loc[c].user_message) ) =>
              \/ HoldsUserMessage(store', session_state'[c], loc'[c].user_message)
              \/ store' = delete_session(store, session_state[c])
              \/ store' = delete_all_sessions(store)
      ]_vars

\* a backend call has failed and the user message of the turn is stored
C1_Witness ==
    \E c \in Callers :
        /\ pc[c] = "replied"
        /\ Head(loc[c].assistant_reply) = "Error:"
        /\ HoldsUserMessage(store, session_state[c], loc[c].user_message)

-----------------------------------------------------------------------------
(* C2: a failing backend call ends in a persisted "Error: ..." reply *)

\* the backend call fails: no answer in time, a non-success status, or an
\* answer without reply text
BackendFails(resp) == resp.status # "200" \/ resp.content = <<>>

Last(seq) == seq[Len(seq)]

\* C2: when the backend call of a turn fails, the turn goes on: its user
\* message has been persisted with the submitted text, the reply becomes a
\* text that begins with "Error:" with empty metadata, that reply is
\* persisted as an assistant message, and the returned turn list ends with
\* the pair (user_text, "Error: ...").
C2_BackendFailure ==
    [][\A c \in Callers :
        /\ (pc[c] = "fetched" /\ pc'[c] # "fetched") =>
              /\ Len(store') = Len(store) + 1
              /\ Last(store').session_id = session_state[c]
              /\ Last(store').role = "user"
              /\ Last(store').content = loc[c].user_message
        /\ (pc[c] = "calling" /\ pc'[c] # "calling" /\ BackendFails(loc'[c].resp)) =>
              /\ pc'[c] = "replied"
              /\ Head(loc'[c].assistant_reply) = "Error:"
              /\ loc'[c].metadata = EmptyDict
        /\ (pc[c] = "replied" /\ pc'[c] # "replied" /\ BackendFails(loc[c].resp)) =>
              /\ pc'[c] = "idle"
              /\ Len(store') = Len(store) + 1
              /\ Last(store').session_id = session_state[c]
              /\ Last(store').role = "assistant"
              /\ Head(Last(store').content) = "Error:"
              /\ Last(store').metadata = JsonDumps(EmptyDict)
              /\ Len(chatbot'[c]) = Len(chatbot[c]) + 1
              /\ Last(chatbot'[c])[1] = loc[c].user_message
              /\ Last(chatbot'[c])[2] = Last(store').content
      ]_vars

\* after one completed turn, a turn whose backend call failed has returned
C2_Witness ==
    \E c \in Callers :
        /\ pc[c] = "idle"
        /\ Len(chatbot[c]) = 2
        /\ chatbot[c][1] = << <<"hi">>, <<"pong">> >>
        /\ chatbot[c][2][1] = <<"ping">>
        /\ Head(chatbot[c][2][2]) = "Error:"
        /\ Len(store) = 4
        /\ store[3].content = <<"ping">>
        /\ store[4].content = chatbot[c][2][2]

-----------------------------------------------------------------------------
(* C3: the turn view of a session reproduces the turns submitted to it *)

\* to_turns(fetch(session_id, limit)) for a limit that covers the table
AllTurns(st, session_id) ==
    {history_to_chat_pairs(rows) : rows \in SelectHistory(st, session_id, Len(st))}

Front(seq) == SubSeq(seq, 1, Len(seq) - 1)

\* C3: with turns submitted one after another, the turn view of a session
\* read with a limit that covers it is empty for a session without
\* messages, gains the pending pair (user_text, "") at its end when a turn's
\* user message is stored, and has that pending pair replaced by
\* (user_text, assistant_text) when the turn's reply is stored; so it is the
\* sequence of completed pairs in submission order, followed by a pending
\* pair exactly when the last submitted message has no reply yet.
C3_TurnsReproduced ==
    [][\A c \in Callers :
        LET s == session_state[c]
        IN  /\ SessionRows(store, s) = {} => AllTurns(store, s) = {<<>>}
            /\ (pc[c] = "fetched" /\ pc'[c] = "appended") =>
                  AllTurns(store', s) =
                      {Append(p, <<loc[c].user_message, <<>> >>) : p \in AllTurns(store, s)}
            /\ (pc[c] = "replied" /\ pc'[c] = "idle") =>
                  /\ \A p \in AllTurns(store, s) :
                        p # <<>> /\ Last(p) = <<loc[c].user_message, <<>> >>
                  /\ AllTurns(store', s) =
                        {Append(Front(p), <<loc[c].user_message, loc[c].assistant_reply>>) :
                            p \in AllTurns(store, s)}
            /\ Cardinality(AllTurns(store, s)) = 1
      ]_vars

\* three turns went into one session one after another, the last one is
\* waiting for its reply, and the view shows them in that order
C3_Witness ==
    \E c \in Callers :
        /\ pc[c] = "calling"
        /\ AllTurns(store, session_state[c]) =
              { << << <<"hi">>, <<"pong">> >>,
                   << <<"ping">>, <<"Error:", "Read", "timed", "out">> >>,
                   << <<"hi">>, <<>> >> >> }

-----------------------------------------------------------------------------
(* C4: the turn list handle_chat returns against a reload of the session *)

\* caller c's turn returns in this step
TurnReturns(c) == pc[c] = "replied" /\ pc'[c] = "idle"

\* C4 as claimed: the turn list a completed turn returns is the turn view
\* of the session computed on the store right after the turn.
C4_ReturnedViewIsStoredView ==
    [][\A c \in Callers :
        TurnReturns(c) => load_history(store', session_state'[c]) = {chatbot'[c]}
      ]_vars

\* the user message of the turn as fetch_history returns it
UserRow(c) ==
    [role |-> "user", content |-> loc[c].user_message,
     metadata |-> JsonDumps(EmptyDict)]

\* the turn of caller c ran on the session as the caller saw it: the
\* history passed in is the turn view of the rows the turn fetched, no
\* pair of it is waiting for a reply, the session's rows are the fetched
\* rows followed by the turn's user message, all of them stored at an
\* earlier clock reading than the reply will be, and the session stays
\* within the limit of fetch_history when the reply is added
TurnOnSeenSession(c) ==
    /\ chatbot[c] = history_to_chat_pairs(loc[c].stored_history)
    /\ chatbot[c] = <<>> \/ Last(chatbot[c])[2] # <<>>
    /\ SelectHistory(store, session_state[c], Len(store)) =
          {Append(loc[c].stored_history, UserRow(c))}
    /\ \A i \in SessionRows(store, session_state[c]) : store[i].created_at < now
    /\ Len(loc[c].stored_history) + 2 <= MAX_HISTORY_MESSAGES

\* C4 amended: when the history passed in is the turn view of the rows the
\* turn fetched with no pair of it pending, the session's rows at the end of
\* the turn are those rows plus the turn's user message, all stored before
\* the reply, and the session holds at most MAX_HISTORY_MESSAGES messages
\* after the turn, the turn list returned is the turn view of the session
\* computed on the store right after the turn, a persisted "Error: ..."
\* reply included.
C4_ReturnedViewReplays ==
    [][\A c \in Callers :
        (TurnReturns(c) /\ TurnOnSeenSession(c)) =>
            load_history(store', session_state'[c]) = {chatbot'[c]}
      ]_vars

\* a second turn on a session has returned a persisted error reply, and a
\* reload of the session shows the two pairs the caller holds
C4_Witness ==
    \E c \in Callers :
        /\ pc[c] = "idle"
        /\ Len(chatbot[c]) = 2
        /\ chatbot[c][2][2] # <<>>
        /\ Head(chatbot[c][2][2]) = "Error:"
        /\ load_history(store, session_state[c]) = {chatbot[c]}

-----------------------------------------------------------------------------
(* C5: fetch returns a bounded prefix of the session *)

\* the three columns fetch_history selects of a row
Columns(row) ==
    [role |-> row.role, content |-> row.content, metadata |-> row.metadata]

\* row i of the table can stand at place k when its session is sorted by
\* created_at: fewer than k rows are older, at least k are not newer
CanBeKth(st, I, i, k) ==
    /\ Cardinality({j \in I : st[j].created_at < st[i].created_at}) < k
    /\ Cardinality({j \in I : st[j].created_at <= st[i].created_at}) >= k

\* on table st and for every limit N, a fetch of a session returns
\* min(N, length) messages, so never more than N, and the message at place
\* k is a message of that session that stands at place k when the session
\* is sorted by ascending created_at
FetchIsBoundedPrefix(st) ==
    \A s \in Sids : \A n \in 0..MaxLimit :
        LET I == SessionRows(st, s)
            R == SelectHistory(st, s, n)
        IN  /\ R # {}
            /\ I = {} => R = {<<>>}
            /\ \A r \in R :
                  /\ Len(r) <= n
                  /\ Len(r) = Min(n, Cardinality(I))
                  /\ \A k \in 1..Len(r) :
                        \E i \in I : r[k] = Columns(st[i]) /\ CanBeKth(st, I, i, k)

\* C5: in every reachable store state, the one at start and the one every
\* write leaves, and for every limit N, a fetch of a session returns
\* min(N, length) messages, so never more than N, in ascending created_at
\* order: the result is the oldest part of the log, not the newest; a
\* session without messages gives the empty sequence.
C5_FetchIsBoundedPrefix ==
    /\ FetchIsBoundedPrefix(store)
    /\ [][store' # store => FetchIsBoundedPrefix(store')]_vars

\* a session holds two completed turns with different replies, and a fetch
\* with limit 2 returns the first turn
C5_Witness ==
    \E s \in Sids :
        /\ Cardinality(SessionRows(store, s)) = 4
        /\ \E i, j \in SessionRows(store, s) :
              /\ store[i].role = "assistant" /\ store[j].role = "assistant"
              /\ store[i].created_at < store[j].created_at
              /\ store[i].content # store[j].content
              /\ \A r \in SelectHistory(store, s, 2) :
                    Len(r) = 2 /\ r[2] = Columns(store[i])

-----------------------------------------------------------------------------
(* C6: sessions do not interfere *)

\* the rows of a session in insertion order
RowsOf(st, session_id) == SelectSeq(st, LAMBDA r : r.session_id = session_id)

\* caller c appends a message in this step (lines 176 and 185)
Appends(c) ==
    \/ pc[c] = "fetched" /\ pc'[c] = "appended"
    \/ pc[c] = "replied" /\ pc'[c] = "idle"

\* C6: under any interleaving of the turns of callers that share the store,
\* a message appended to session A does not appear in the fetch of any
\* session B # A, and the fetch of B, its order included, is the same
\* before and after the append.
C6_SessionIsolation ==
    [][\A c \in Callers :
        Appends(c) =>
            /\ Len(store') = Len(store) + 1
            /\ Last(store').session_id = session_state[c]
            /\ \A b \in Sids \ {session_state[c]} :
                  /\ fetch_history(store', b) = fetch_history(store, b)
                  /\ SelectHistory(store', b, Len(store')) = SelectHistory(store, b, Len(store))
                  /\ \A r \in SelectHistory(store', b, Len(store')) :
                        Len(r) = Len(RowsOf(store, b))
      ]_vars

\* two callers are in the middle of turns on different sessions, each of
\* which holds messages
C6_Witness ==
    \E c, d \in Callers :
        /\ session_state[c] # session_state[d]
        /\ pc[c] = "replied" /\ pc[d] = "replied"
        /\ SessionRows(store, session_state[c]) # {}
        /\ SessionRows(store, session_state[d]) # {}

-----------------------------------------------------------------------------
(* C7: delete removes one session and nothing else *)

\* C7: the delete of a session leaves no message of that session, so that
\* a fetch of it right afterwards is empty, leaves the messages of every
\* other session as they were, and on a session without messages it leaves
\* the whole store unchanged.
C7_DeleteFrame ==
    [][\A c \in Callers :
        delete_current_session(c) =>
            LET a == session_state[c]
            IN  /\ RowsOf(store', a) = <<>>
                /\ fetch_history(store', a) = {<<>>}
                /\ \A b \in Sids \ {a} : RowsOf(store', b) = RowsOf(store, b)
                /\ Len(store') = Len(store) - Len(RowsOf(store, a))
                /\ RowsOf(store, a) = <<>> => store' = store
      ]_vars

\* a caller can delete its session, which holds messages, while another
\* session holds messages too
C7_Witness ==
    \E c \in Callers :
        /\ ENABLED delete_current_session(c)
        /\ RowsOf(store, session_state[c]) # <<>>
        /\ \E b \in Sids \ {session_state[c]} : RowsOf(store, b) # <<>>

-----------------------------------------------------------------------------
(* C8: an empty message is a no-op *)

\* C8: handle_chat on an empty user_message returns at once with the
\* history and the session id it was given: the store is not written, the
\* backend is not invoked, and the caller's history and session id are
\* what they were.
C8_EmptyInputNoOp ==
    [][\A c \in Callers :
        (pc[c] = "submitted" /\ loc[c].user_message = <<>> /\ pc'[c] # "submitted") =>
            /\ pc'[c] = "idle"
            /\ store' = store
            /\ now' = now
            /\ chatbot'[c] = chatbot[c]
            /\ session_state'[c] = session_state[c]
      ]_vars

\* an empty message has been submitted on a session with history
C8_Witness ==
    \E c \in Callers :
        /\ pc[c] = "submitted"
        /\ loc[c].user_message = <<>>
        /\ chatbot[c] # <<>>
        /\ store # <<>>

-----------------------------------------------------------------------------
(* C9: a session's messages alternate user, assistant *)

\* user, assistant, user, assistant, ...: a user message first, and at most
\* one unanswered user message last
AlternatesSeq(rows) ==
    \A k \in 1..Len(rows) :
        rows[k].role = IF k % 2 = 1 THEN "user" ELSE "assistant"

\* every canonical order of the session's messages alternates
Alternates(st, session_id) ==
    \A rows \in SelectHistory(st, session_id, Len(st)) : AlternatesSeq(rows)

\* C9 as the spec states it: in every reachable state, under any
\* interleaving of turns by callers that share the store, two callers on
\* one session included, the messages of every session alternate user,
\* assistant, starting with a user message and ending with at most one
\* unanswered user message.
C9_AlwaysAlternates == \A s \in Sids : Alternates(store, s)

\* every message of the session was stored before the current clock reading
StoredEarlier(session_id) ==
    \A i \in SessionRows(store, session_id) : store[i].created_at < now

\* caller c appends out of turn in this step: its user message onto a
\* session whose last message is an unanswered user message, its reply onto
\* a session whose last message is not an unanswered user message, or
\* either at the timestamp of a message that another caller stored
AppendsOutOfTurn(c) ==
    LET n == Cardinality(SessionRows(store, session_state[c]))
    IN  \/ pc[c] = "fetched" /\ pc'[c] = "appended"
            /\ (n % 2 = 1 \/ ~StoredEarlier(session_state[c]))
        \/ pc[c] = "replied" /\ pc'[c] = "idle"
            /\ (n % 2 = 0 \/ ~StoredEarlier(session_state[c]))

\* C9: the messages of a session alternate user, assistant for as long as
\* the turns on that session take their turn: a step leaves an alternating
\* session alternating, whichever caller takes it and whatever the other
\* callers are in the middle of, unless it is an append out of turn on that
\* session.
C9_AlternatesWhileTurnsTakeTurns ==
    [][store' # store =>
        \A s \in Sids :
            Alternates(store, s) =>
                \/ Alternates(store', s)
                \/ \E c \in Callers : session_state[c] = s /\ AppendsOutOfTurn(c)
      ]_vars

\* two turns were completed on one session, the second one by a caller
\* whose view did not hold the first, and the session alternates
C9_Witness ==
    \E s \in Sids : \E c \in Callers :
        /\ Cardinality(SessionRows(store, s)) = 4
        /\ Alternates(store, s)
        /\ session_state[c] = s
        /\ Len(chatbot[c]) = 1
        /\ pc[c] = "idle"

-----------------------------------------------------------------------------
(* C10: an assistant message without a pending user message *)

\* C10 as the spec states it: an assistant message with no pending user
\* message before it contributes no pair, so every pair of a view has a
\* non-empty user side (on a table whose user messages are all non-empty).
C10_StrayAssistantDropped ==
    \A c \in Callers :
        (\A i \in 1..Len(store) : store[i].role = "user" => store[i].content # <<>>)
            => \A k \in 1..Len(chatbot[c]) : chatbot[c][k][1] # <<>>

\* the places of the assistant messages
AssistantAt(rows) == {i \in 1..Len(rows) : rows[i].role = "assistant"}

Largest(S) == CHOOSE x \in S : \A y \in S : y <= x

\* the user text pending before place i: the content of the last user
\* message after the last assistant message before i, empty without one
PendingUser(rows, i) ==
    LET prev == {j \in AssistantAt(rows) : j < i}
        from == IF prev = {} THEN 1 ELSE Largest(prev) + 1
        us   == {u \in from..(i - 1) : rows[u].role = "user"}
    IN  IF us = {} THEN <<>> ELSE rows[Largest(us)].content

\* C10: on every message sequence, each assistant message contributes
\* exactly one pair, in order, whose reply side is its content and whose
\* user side is the user text pending before it, the empty text when none
\* is pending (a leading assistant message, or one directly after another
\* assistant message); a non-empty user text pending at the end
\* contributes the last pair, with an empty reply side.
C10_StrayAssistantEmitted ==
    [][\A c \in Callers :
        load_session(c) =>
            \A rows \in fetch_history(store, InitialSid) :
                LET pairs == chatbot'[c]
                    A     == AssistantAt(rows)
                    tail  == PendingUser(rows, Len(rows) + 1)
                IN  /\ Len(pairs) = Cardinality(A) + (IF tail # <<>> THEN 1 ELSE 0)
                    /\ \A i \in A :
                          pairs[Cardinality({j \in A : j <= i})]
                              = <<PendingUser(rows, i), rows[i].content>>
                    /\ tail # <<>> => Last(pairs) = <<tail, <<>> >>
      ]_vars

\* a loaded view shows the pair of a leading assistant message and the pair
\* of an assistant message directly after another one, both with an empty
\* user side
C10_Witness ==
    \E c \in Callers :
        /\ Len(store) >= 2
        /\ store[1].role = "assistant" /\ store[2].role = "assistant"
        /\ Len(chatbot[c]) >= 2
        /\ chatbot[c][1] = <<<<>>, store[1].content>>
        /\ chatbot[c][2] = <<<<>>, store[2].content>>
        /\ store[1].content # <<>> /\ store[2].content # <<>>

-----------------------------------------------------------------------------
(* C11: user messages in a row *)

\* the user message at place j is followed directly by another user message
Superseded(rows, j) ==
    /\ j < Len(rows)
    /\ rows[j].role = "user"
    /\ rows[j + 1].role = "user"

\* C11: when user messages stand in a row before the next assistant
\* message, the pair of that assistant message carries the last of them,
\* the earlier ones get no pair of their own (a non-empty text that only such
\* a message carries is the user side of no pair, and there are no more pairs
\* than assistant messages plus one), and the fetch still returns every one
\* of them.
C11_LastUserWins ==
    [][\A c \in Callers :
        load_session(c) =>
            \A rows \in fetch_history(store, InitialSid) :
                LET pairs == chatbot'[c]
                    A     == AssistantAt(rows)
                IN  /\ \A i \in A :
                          (i > 2 /\ Superseded(rows, i - 2)) =>
                              pairs[Cardinality({j \in A : j <= i})]
                                  = <<rows[i - 1].content, rows[i].content>>
                    /\ \A j \in 1..Len(rows) :
                          (/\ Superseded(rows, j)
                           /\ rows[j].content # <<>>
                           /\ \A u \in 1..Len(rows) :
                                 (u # j /\ rows[u].role = "user")
                                     => rows[u].content # rows[j].content)
                              => \A k \in 1..Len(pairs) : pairs[k][1] # rows[j].content
                    /\ Len(pairs) <= Cardinality(A) + 1
                    /\ Len(rows) = Min(Len(store), MAX_HISTORY_MESSAGES)
                    /\ \A j \in 1..Len(rows) : rows[j] = Columns(store[j])
      ]_vars

\* a loaded view shows one pair for two different user messages in a row
\* and the reply that follows them
C11_Witness ==
    \E c \in Callers :
        /\ Len(store) = 3
        /\ store[1].role = "user" /\ store[2].role = "user"
        /\ store[3].role = "assistant"
        /\ store[1].content # <<>> /\ store[2].content # <<>>
        /\ store[1].content # store[2].content
        /\ chatbot[c] = << <<store[2].content, store[3].content>> >>

-----------------------------------------------------------------------------
(* C12: the prompt *)

\* C12: for every history and every new user text, the prompt has
\* len(history) + 2 entries: first the system entry with the system prompt,
\* last a user entry with the new text, and in between the history messages
\* one for one with their role and content, in their order.
C12_PromptShape ==
    \A c \in Callers :
        pc[c] = "fetched" =>
            LET history  == loc[c].stored_history
                messages == loc[c].messages
            IN  /\ Len(messages) = Len(history) + 2
                /\ messages[1] = [role |-> "system", content |-> SYSTEM_PROMPT]
                /\ messages[Len(messages)]
                       = [role |-> "user", content |-> loc[c].user_message]
                /\ \A i \in 1..Len(history) :
                      /\ messages[i + 1].role = history[i].role
                      /\ messages[i + 1].content = history[i].content

\* a prompt was built on a history of three messages of three roles that
\* does not end with a user message
C12_Witness ==
    \E c \in Callers :
        /\ pc[c] = "fetched"
        /\ Len(loc[c].stored_history) = 3
        /\ {loc[c].stored_history[i].role : i \in 1..3} = RowRoles
        /\ loc[c].stored_history[3].role # "user"
        /\ Len(loc[c].messages) = 5

-----------------------------------------------------------------------------
(* C13: the list of sessions *)

\* the user messages of a session, by position
UserRowsOf(st, session_id) ==
    {i \in SessionRows(st, session_id) : st[i].role = "user"}

\* on table st the list has one entry per session with a user message and
\* no other entry, the entries stand in the order of their session ids, and
\* the text and the timestamp of an entry are those of a user message of
\* its session that no user message of the session is older than
ListsSessions(st) ==
    /\ get_all_sessions(st) # {}
    /\ \A sessions \in get_all_sessions(st) :
          /\ {sessions[k][1] : k \in 1..Len(sessions)}
                 = {s \in Sids : UserRowsOf(st, s) # {}}
          /\ \A k \in 1..(Len(sessions) - 1) : sessions[k][1] < sessions[k + 1][1]
          /\ \A k \in 1..Len(sessions) :
                \E i \in UserRowsOf(st, sessions[k][1]) :
                    /\ sessions[k][2] = st[i].content
                    /\ sessions[k][3] = st[i].created_at
                    /\ \A j \in UserRowsOf(st, sessions[k][1]) :
                          st[i].created_at <= st[j].created_at

-----------------------------------------------------------------------------
(* C14: delete all is idempotent *)

\* C14: delete all leaves no message in any session, whatever the store
\* held, and a second delete all right after it leaves the store as the
\* first one left it: on a store without messages it changes nothing, and
\* it returns like the first one.
C14_DeleteAllIdempotent ==
    [][\A c \in Callers :
        erase_all_conversations(c) =>
            /\ store' = <<>>
            /\ \A s \in Sids : fetch_history(store', s) = {<<>>}
            /\ delete_all_sessions(store') = store'
            /\ store = <<>> => store' = store
            /\ pc'[c] = "idle"
      ]_vars

\* a caller can delete all while two sessions hold messages
C14_Witness ==
    \E c \in Callers :
        /\ ENABLED erase_all_conversations(c)
        /\ \E a, b \in Sids :
              a # b /\ SessionRows(store, a) # {} /\ SessionRows(store, b) # {}

-----------------------------------------------------------------------------
(* C15: the role of a message *)

\* every persisted message has the role user, assistant or system
RolesValid ==
    \A i \in 1..Len(store) : store[i].role \in {"user", "assistant", "system"}

\* C15: in every reachable store state every persisted message has the
\* role user, assistant or system; an append with one of these roles adds
\* the message, and an append with any other role value fails with an error
\* of the store and leaves the store unchanged.
C15_RoleChecked ==
    /\ []RolesValid
    /\ [][\A s \in Sids, role \in AnyRoles, t \in RowTexts :
            append_message_call("c1", s, role, t) =>
                IF role \in {"user", "assistant", "system"}
                THEN /\ Len(store') = Len(store) + 1
                     /\ Last(store').role = role
                     /\ pc'["c1"] = "idle"
                ELSE /\ store' = store
                     /\ pc'["c1"] = "raised"
         ]_vars

\* an append has failed on a store that holds messages of two roles
C15_Witness ==
    /\ pc["c1"] = "raised"
    /\ Len(store) >= 2
    /\ store[1].role # store[2].role

-----------------------------------------------------------------------------
(* C16: failures of the store during a turn *)

\* a store operation of the turn of caller c fails in this step
StoreFails(c) ==
    \/ handle_chat_fetch_raises(c)
    \/ handle_chat_append_user_raises(c)
    \/ handle_chat_append_assistant_raises(c)

\* C16: when the history fetch, the user append or the assistant append of
\* a turn fails, the failure leaves handle_chat: the operation is not tried
\* again, no "Error:" reply is made of it, and the turn writes nothing to
\* the store from then on and returns no history.
C16_StoreFailurePropagates ==
    [][\A c \in Callers :
        /\ StoreFails(c) =>
              /\ pc'[c] = "raised"
              /\ store' = store
              /\ chatbot' = chatbot
              /\ loc'[c].assistant_reply = loc[c].assistant_reply
        /\ pc[c] = "raised" =>
              /\ pc'[c] = "idle"
              /\ store' = store
              /\ chatbot' = chatbot
              /\ session_state' = session_state
      ]_vars

\* the assistant append of a turn has failed after the backend answered:
\* the user message of the turn is the last message of its session
C16_Witness ==
    /\ pc["c1"] = "raised"
    /\ loc["c1"].assistant_reply = <<"pong">>
    /\ store # <<>>
    /\ Last(store).role = "user"
    /\ Last(store).content = loc["c1"].user_message
    /\ chatbot["c1"] # <<>>

-----------------------------------------------------------------------------
(* C17: the order of messages with equal created_at *)

\* the three columns of the rows of a session in insertion (id) order
InsertionOrder(st, session_id) ==
    [i \in 1..Len(RowsOf(st, session_id)) |-> Columns(RowsOf(st, session_id)[i])]

\* C17: a fetch with a limit that covers the session returns its messages
\* in ascending created_at order with messages of equal created_at in
\* insertion (id) order, that is always in the order in which they were
\* appended.
C17_FetchInInsertionOrder ==
    \A s \in Sids :
        SelectHistory(store, s, Len(store)) = {InsertionOrder(store, s)}

-----------------------------------------------------------------------------
(* C18: the prompt of a turn is built from a fresh read *)

\* how often message m occurs in the sequence rows
Count(rows, m) == Cardinality({i \in 1..Len(rows) : rows[i] = m})

\* the two sequences hold the same messages the same number of times
SameMessages(r1, r2) ==
    /\ Len(r1) = Len(r2)
    /\ \A i \in 1..Len(r1) : Count(r1, r1[i]) = Count(r2, r1[i])

\* C18: the prompt of a turn is made of the history that the turn fetched
\* and the submitted text, it has at most limit + 2 entries, its history
\* part holds messages of the turn's session only, and once a session holds
\* at least limit messages the history part is the same oldest limit
\* messages in every later turn: two turns that have fetched limit messages
\* of one session have fetched the same messages.
C18_PromptFromFreshRead ==
    \A c \in Callers :
        pc[c] = "fetched" =>
            /\ loc[c].messages
                   = build_messages(loc[c].stored_history, loc[c].user_message)
            /\ Len(loc[c].messages) <= MAX_HISTORY_MESSAGES + 2
            /\ \A d \in Callers :
                  (/\ pc[d] = "fetched"
                   /\ session_state[d] = session_state[c]
                   /\ Len(loc[c].stored_history) = MAX_HISTORY_MESSAGES
                   /\ Len(loc[d].stored_history) = MAX_HISTORY_MESSAGES)
                      => SameMessages(loc[c].stored_history, loc[d].stored_history)

-----------------------------------------------------------------------------
(* C19: a delete during a turn *)

\* the turn of caller c is between its user append and its assistant append
BetweenAppends(c) == pc[c] \in {"appended", "calling", "replied"}

-----------------------------------------------------------------------------
(* C20: the session ids of different callers *)

\* C20: callers that only submit messages hold different session ids, so
\* that two of them never write to the same session.
C20_CallersHoldDistinctSessions ==
    \A c, d \in Callers :
        (c # d /\ pc[c] = "appended" /\ pc[d] = "appended")
            => session_state[c] # session_state[d]

-----------------------------------------------------------------------------
(* C21: the answer to a transcription request with invalid input *)

\* the request is one that _process_transcription rejects: a multipart
\* request without audio_file, or any other request with an empty body
Rejected(req) ==
    IF IsMultipart(req.content_type)
    THEN req.audio_file = <<>>
    ELSE req.body = <<>>

\* the validation message of a rejected request (lines 125, 132)
ValidationMessage(req) ==
    IF IsMultipart(req.content_type)
    THEN <<"audio_file", "is", "required", "for", "multipart", "uploads">>
    ELSE <<"Empty", "audio", "data">>

\* the request on connection k got as far as run_transcription_from_path
RanTranscription(k) ==
    \E i \in 1..Len(calls[k]) : calls[k][i] \in {"WhisperModel", "transcribe"}

\* C21: a request rejected for invalid input (a multipart request without
\* audio_file, a raw request with an empty body) is answered with status 400
\* and the validation message, and no temp file was created and the model
\* was not invoked for it; an answer has status 500 only if the
\* transcription itself failed.
C21_InvalidInputAnswered400 ==
    \A k \in Conns :
        response[k] # <<>> =>
            /\ Rejected(request[k][1]) =>
                  /\ response[k][1].status_code = 400
                  /\ response[k][1].detail = ValidationMessage(request[k][1])
                  /\ calls[k] = <<>>
            /\ response[k][1].status_code = 500 => RanTranscription(k)

====
